---- MODULE Spec2Model ----
(***************************************************************************)
(* Retrieval-and-rerank core of the assessment recommender:                *)
(*   - FAISSVectorStore   (backend/app/vector_store.py)                    *)
(*   - LLMReranker        (backend/app/reranker.py)                        *)
(* Vectors are sequences of small integers; on such values the float32     *)
(* conversion and the float32 distance arithmetic of numpy/faiss are       *)
(* exact.  Python positions are kept 0-based (faiss labels), TLA+          *)
(* sequences are 1-based, PyIndex converts.                                *)
(***************************************************************************)
EXTENDS Integers, Sequences, FiniteSets, TLC

VARIABLES vector_store,   \* the FAISSVectorStore object: dimension, index, assessments, embeddings_array
          index_file,     \* the file at index_path, or NoFile
          metadata_file,  \* the file at metadata_path, or NoFile
          saved,          \* history: the store as it was at the last save
          lastMut,        \* history: what last changed the store's contents
          lastOp,         \* the call that has just ended, with arguments and outcome, until the caller takes it
          env,            \* the process environment: credentials, installed packages, ENABLE_RERANKING
          catalog_file,   \* the file at catalog_path, or NoFile
          recommendation_engine,  \* the global of main.py: None or the RecommendationEngine object
          requests,       \* per request of POST /recommend: position in the handler and its locals
          hist            \* history: counts of constructions, catalog reads and embedding calls

engineVars == <<env, catalog_file, recommendation_engine, requests, hist>>

vars == <<vector_store, index_file, metadata_file, saved, lastMut, lastOp,
          env, catalog_file, recommendation_engine, requests, hist>>

----------------------------------------------------------------------------
(* Bounds and input domains *)

MaxLen == 2        \* longest list of assessments / embeddings given to add
MaxK == 3          \* largest top_k
MaxTextLen == 4    \* longest enumerated model output, in characters
MaxN == 3          \* largest number of candidates given to the rank parser

Min(a, b) == IF a < b THEN a ELSE b

RECURSIVE SeqsOfLen(_, _)
SeqsOfLen(S, n) ==
    IF n = 0 THEN {<<>>}
    ELSE {Append(s, x) : s \in SeqsOfLen(S, n - 1), x \in S}

SeqUpTo(S, n) == UNION {SeqsOfLen(S, m) : m \in 0..n}

\* Assessment dictionaries of the catalog: description is optional.
JavaTest == [name |-> "Java Test", url |-> "u1", type |-> "K", description |-> "d1"]
PythonTest == [name |-> "Python Test", url |-> "u2", type |-> "K"]
Catalog == {JavaTest, PythonTest}

\* Embedding dimensions and vectors: two vectors of dimension 2 at distance 2
\* from each other, one of dimension 1; <<0, 0>> is a query at distance 1
\* from both vectors of dimension 2.
Dims == {1, 2}
v01 == <<0, 1>>
v10 == <<1, 0>>
Vectors == {<<1>>, v01, v10}
Queries == Vectors \cup {<<0, 0>>}
TopKs == (-1)..MaxK

\* Model output is text: a sequence of characters.
Digits == {"0", "1", "2", "3", "9"}
Chars == Digits \cup {",", " "}
ExampleText == <<"3", ",", " ", "1", ",", " ", "1", ",", " ", "9", "9", ",", " ", "2">>
Texts == SeqUpTo(Chars, MaxTextLen) \cup {ExampleText}

\* a path at which no file exists
NoFile == [exists |-> FALSE]
\* Python's None, for embeddings_array before the first add
None == [none |-> TRUE]

\* The requests of POST /recommend that may be in flight together.
Requests == {"r1", "r2"}

\* a request slot in which no request is in flight
NoRequest == [pc |-> "idle"]

\* The process environment: the two credentials, whether the client
\* packages of the hosted providers and sentence-transformers can be
\* imported, and the ENABLE_RERANKING switch of get_engine.
Env(openai_key, gemini_key, genai, st, rerank) ==
    [OPENAI_API_KEY |-> openai_key, GEMINI_API_KEY |-> gemini_key,
     openai |-> TRUE, genai |-> genai, sentence_transformers |-> st,
     ENABLE_RERANKING |-> rerank]

\* restarts of the process, engines constructed by this process, index
\* builds completed since the first start, assignments made to the engine's
\* embedding_generator after construction, and for each replacement made by
\* recommend the number of the generator whose failure led to it.
HistZero == [restarts |-> 0, engines |-> 0, builds |-> 0, gen_serial |-> 0, replaced_for |-> <<>>]

\* The engine variables in the specifications that do not use the engine.
EngineUnused ==
    /\ env = Env(FALSE, FALSE, FALSE, TRUE, FALSE)
    /\ catalog_file = NoFile
    /\ recommendation_engine = None
    /\ requests = [r \in Requests |-> NoRequest]
    /\ hist = HistZero

----------------------------------------------------------------------------
(* numpy / faiss primitives used by the store *)

\* np.array(..., dtype='float32') of one number: integers of magnitude up to
\* 2^24 are representable exactly, beyond that the value is rounded to the
\* float32 grid (multiples of 2 up to 2^25).
Float32(x) ==
    IF -16777216 <= x /\ x <= 16777216 THEN x
    ELSE IF x % 2 = 0 THEN x
    ELSE IF ((x - 1) \div 2) % 2 = 0 THEN x - 1 ELSE x + 1

\* np.array(embeddings, dtype='float32'): a list of equal-length lists gives
\* an (n, d) array, the empty list an array of shape (0,), a ragged list
\* raises ValueError.
np_array(embeddings) ==
    IF embeddings = <<>>
    THEN [ok |-> TRUE, shape |-> <<0>>, rows |-> <<>>]
    ELSE IF \E i \in 1..Len(embeddings) : Len(embeddings[i]) # Len(embeddings[1])
    THEN [ok |-> FALSE, shape |-> <<>>, rows |-> <<>>]
    ELSE [ok |-> TRUE,
          shape |-> <<Len(embeddings), Len(embeddings[1])>>,
          rows |-> [i \in 1..Len(embeddings) |->
                      [j \in 1..Len(embeddings[1]) |-> Float32(embeddings[i][j])]]]

\* faiss.IndexFlatL2(d): an empty flat index.
IndexFlatL2(d) == [d |-> d, xb |-> <<>>]

ntotal(index) == Len(index.xb)

\* index.add(x): unpacks n, d = x.shape, asserts d == self.d, appends.
index_add(index, x) ==
    IF Len(x.shape) # 2
    THEN [outcome |-> "ValueError: not enough values to unpack", index |-> index]
    ELSE IF x.shape[2] # index.d
    THEN [outcome |-> "AssertionError", index |-> index]
    ELSE [outcome |-> "ok", index |-> [index EXCEPT !.xb = index.xb \o x.rows]]

RECURSIVE SumSq(_, _, _)
SumSq(x, y, j) ==
    IF j = 0 THEN 0 ELSE (x[j] - y[j]) * (x[j] - y[j]) + SumSq(x, y, j - 1)

\* squared Euclidean distance
L2sqr(x, y) == SumSq(x, y, Len(x))

\* distance reported for a result slot that no stored vector filled
FLT_MAX == 2^30

\* variant: the heap ordered the other way round
cmp2_reversed(a, b) == a.dis < b.dis \/ (a.dis = b.dis /\ a.id < b.id)

\* Order of faiss's result heap: by distance, then by label.
cmp2(a, b) == a.dis > b.dis \/ (a.dis = b.dis /\ a.id > b.id)

\* variant: a candidate as near as the heap top replaces it
HeapAccepts_ties(top, dis) == top.dis >= dis

\* A candidate replaces the heap top only when strictly nearer than it.
HeapAccepts(top, dis) == top.dis > dis

\* The heap kept as a sequence ascending in cmp2 order, its top last:
\* replace the top by e.
HeapReplaceTop(heap, e) ==
    LET rest == SubSeq(heap, 1, Len(heap) - 1)
        pos == Cardinality({i \in 1..Len(rest) : ~cmp2(rest[i], e)})
    IN SubSeq(rest, 1, pos) \o <<e>> \o SubSeq(rest, pos + 1, Len(rest))

RECURSIVE HeapScan(_, _, _, _)
HeapScan(xb, q, j, heap) ==
    IF j > Len(xb) THEN heap
    ELSE LET dis == L2sqr(q, xb[j])
             e == [dis |-> dis, id |-> j - 1]
         IN HeapScan(xb, q, j + 1,
                     IF HeapAccepts(heap[Len(heap)], dis)
                     THEN HeapReplaceTop(heap, e) ELSE heap)

\* index.search(x, k) for one query row: asserts d == self.d and k > 0, then
\* scans the stored vectors in storage order keeping the k best in a heap;
\* unfilled slots come back as label -1 at distance FLT_MAX.
index_search(index, x, k) ==
    IF x.shape[2] # index.d \/ k <= 0
    THEN [outcome |-> "AssertionError", D |-> <<>>, I |-> <<>>]
    ELSE LET h0 == [i \in 1..k |-> [dis |-> FLT_MAX, id |-> -1]]
             h == HeapScan(index.xb, x.rows[1], 1, h0)
         IN [outcome |-> "ok",
             D |-> [i \in 1..k |-> h[i].dis],
             I |-> [i \in 1..k |-> h[i].id]]

\* Python list indexing with a 0-based, possibly negative position.
PyIndex(list, idx) == IF idx < 0 THEN list[Len(list) + idx + 1] ELSE list[idx + 1]

\* Python list[:n]
PySlice(list, n) ==
    IF n >= 0 THEN SubSeq(list, 1, Min(n, Len(list)))
    ELSE SubSeq(list, 1, Len(list) + n)

RECURSIVE Flatten(_)
Flatten(rows) == IF rows = <<>> THEN <<>> ELSE Head(rows) \o Flatten(Tail(rows))

\* faiss.write_index: dimension, count and the vectors as one flat array.
write_index(index) ==
    [exists |-> TRUE, d |-> index.d, ntotal |-> Len(index.xb), codes |-> Flatten(index.xb)]

\* variant: the flat array read back column by column
read_index_transposed(file) ==
    [d |-> file.d,
     xb |-> [i \in 1..file.ntotal |->
               [j \in 1..file.d |-> file.codes[(j - 1) * file.ntotal + i]]]]

\* faiss.read_index
read_index(file) ==
    [d |-> file.d,
     xb |-> [i \in 1..file.ntotal |->
               [j \in 1..file.d |-> file.codes[(i - 1) * file.d + j]]]]

\* json.dump of the list of assessment dictionaries: each object as the
\* sequence of its (key, value) members.
KeyOrder == <<"name", "url", "type", "description">>

json_dump_object(a) ==
    LET present == {i \in 1..Len(KeyOrder) : KeyOrder[i] \in DOMAIN a}
        nth(n) == CHOOSE i \in present : Cardinality({m \in present : m < i}) = n - 1
    IN [n \in 1..Cardinality(present) |-> <<KeyOrder[nth(n)], a[KeyOrder[nth(n)]]>>]

json_dump(list) == [i \in 1..Len(list) |-> json_dump_object(list[i])]

json_load_object(members) ==
    [key \in {members[i][1] : i \in 1..Len(members)} |->
        LET i == CHOOSE i \in 1..Len(members) :
                    /\ members[i][1] = key
                    /\ \A m \in 1..Len(members) : members[m][1] = key => m <= i
        IN members[i][2]]

json_load(doc) == [i \in 1..Len(doc) |-> json_load_object(doc[i])]

----------------------------------------------------------------------------
(* FAISSVectorStore *)

FAISSVectorStore(dim) ==
    [dimension |-> dim,
     index |-> IndexFlatL2(dim),
     assessments |-> <<>>,
     embeddings_array |-> None]

\* variant: the length check left out
LengthMismatch_unchecked(assess, embeddings) == FALSE

LengthMismatch(assess, embeddings) == Len(assess) # Len(embeddings)

ValidationError == "ValueError: Number of assessments must match number of embeddings"

\* variant: the existing index is kept and added to
NewIndexFor_additive(s) == s.index

NewIndexFor(s) == IndexFlatL2(s.dimension)

\* add_assessments: the store after the call and how the call ended.
add_assessments(s, assess, embeddings) ==
    IF LengthMismatch(assess, embeddings)
    THEN [store |-> s, outcome |-> ValidationError]
    ELSE
      LET s1 == [s EXCEPT !.assessments = assess]
          arr == np_array(embeddings)
      IN IF ~arr.ok
         THEN [store |-> s1, outcome |-> "ValueError: inhomogeneous shape"]
         ELSE
           LET s2 == [s1 EXCEPT !.embeddings_array = arr, !.index = NewIndexFor(s)]
               r == index_add(s2.index, arr)
           IN [store |-> [s2 EXCEPT !.index = r.index], outcome |-> r.outcome]

\* search: the list of (assessment, distance) results; I keeps the faiss
\* label behind each kept result.
search(s, query_embedding, top_k) ==
    IF ntotal(s.index) = 0
    THEN [outcome |-> "ok", results |-> <<>>, I |-> <<>>]
    ELSE
      LET query_vector == np_array(<<query_embedding>>)
          r == index_search(s.index, query_vector, Min(top_k, Len(s.assessments)))
          kept == IF r.outcome = "ok"
                  THEN SelectSeq(r.I, LAMBDA idx : idx < Len(s.assessments))
                  ELSE <<>>
          keptPos == IF r.outcome = "ok"
                     THEN {i \in 1..Len(r.I) : r.I[i] < Len(s.assessments)}
                     ELSE {}
          nth(n) == CHOOSE i \in keptPos : Cardinality({m \in keptPos : m < i}) = n - 1
      IN [outcome |-> r.outcome,
          results |-> [n \in 1..Cardinality(keptPos) |->
                         <<PyIndex(s.assessments, r.I[nth(n)]), r.D[nth(n)]>>],
          I |-> kept]

\* variant: the metadata document is not written
save_index_only(s) ==
    [index_file |-> write_index(s.index), metadata_file |-> NoFile]

\* save: both artifacts as written.
save(s) ==
    [index_file |-> write_index(s.index),
     metadata_file |-> [exists |-> TRUE, doc |-> json_dump(s.assessments)]]

BothExist(ifile, mfile) == ifile.exists /\ mfile.exists

\* variant: a failed load leaves an empty store behind
load_clearing(s, ifile, mfile) ==
    IF ifile.exists /\ mfile.exists
    THEN LET idx == read_index(ifile)
             assess == json_load(mfile.doc)
             s1 == [s EXCEPT !.index = idx, !.assessments = assess]
         IN [store |-> IF assess # <<>> /\ ntotal(idx) > 0
                       THEN [s1 EXCEPT !.dimension = idx.d] ELSE s1,
             found |-> TRUE]
    ELSE [store |-> [s EXCEPT !.index = IndexFlatL2(s.dimension), !.assessments = <<>>],
          found |-> FALSE]

\* load: the store after the call; found tells which branch printed.
load(s, ifile, mfile) ==
    IF BothExist(ifile, mfile)
    THEN LET idx == read_index(ifile)
             assess == json_load(mfile.doc)
             s1 == [s EXCEPT !.index = idx, !.assessments = assess]
         IN [store |-> IF assess # <<>> /\ ntotal(idx) > 0
                       THEN [s1 EXCEPT !.dimension = idx.d] ELSE s1,
             found |-> TRUE]
    ELSE [store |-> s, found |-> FALSE]

----------------------------------------------------------------------------
(* Actions on the vector store *)

\* no call is in progress
NoOp == [op |-> "none"]

Idle == lastOp = NoOp

\* The caller takes the outcome of the call that has ended.
Return ==
    /\ ~Idle
    /\ lastOp' = NoOp
    /\ UNCHANGED <<vector_store, index_file, metadata_file, saved, lastMut>>
    /\ UNCHANGED engineVars

\* FAISSVectorStore(dimension=dim) replaces the store object.
Construct(dim) ==
    /\ Idle
    /\ vector_store' = FAISSVectorStore(dim)
    /\ lastMut' = "construct"
    /\ lastOp' = [op |-> "construct", dimension |-> dim]
    /\ UNCHANGED <<index_file, metadata_file, saved>>
    /\ UNCHANGED engineVars

AddAssessments(assess, embeddings) ==
    LET r == add_assessments(vector_store, assess, embeddings)
    IN /\ Idle
       /\ vector_store' = r.store
       /\ lastMut' = IF r.outcome = "ok" THEN "add_ok"
                     ELSE IF r.store # vector_store THEN "add_failed"
                     ELSE lastMut
       /\ lastOp' = [op |-> "add_assessments",
                     nAssessments |-> Len(assess),
                     nEmbeddings |-> Len(embeddings),
                     held_before |-> ntotal(vector_store.index),
                     outcome |-> r.outcome,
                     assessments |-> IF r.outcome = "ok" THEN assess ELSE <<>>,
                     embeddings |-> IF r.outcome = "ok" THEN embeddings ELSE <<>>]
       /\ UNCHANGED <<index_file, metadata_file, saved>>
       /\ UNCHANGED engineVars

Search(query_embedding, top_k) ==
    LET r == search(vector_store, query_embedding, top_k)
    IN /\ Idle
       /\ lastOp' = [op |-> "search",
                     query |-> query_embedding,
                     top_k |-> top_k,
                     outcome |-> r.outcome,
                     results |-> r.results,
                     I |-> r.I]
       /\ UNCHANGED <<vector_store, index_file, metadata_file, saved, lastMut>>
       /\ UNCHANGED engineVars

Save ==
    LET f == save(vector_store)
    IN /\ Idle
       /\ index_file' = f.index_file
       /\ metadata_file' = f.metadata_file
       /\ saved' = [exists |-> TRUE, store |-> vector_store]
       /\ lastOp' = [op |-> "save"]
       /\ UNCHANGED <<vector_store, lastMut>>
       /\ UNCHANGED engineVars

Load ==
    LET r == load(vector_store, index_file, metadata_file)
    IN /\ Idle
       /\ vector_store' = r.store
       /\ lastMut' = IF r.found THEN "load" ELSE lastMut
       /\ lastOp' = [op |-> "load",
                     found |-> r.found,
                     raised |-> FALSE,
                     fresh |-> vector_store = FAISSVectorStore(vector_store.dimension)]
       /\ UNCHANGED <<index_file, metadata_file, saved>>
       /\ UNCHANGED engineVars

\* The environment removes one of the two artifacts.
RemoveIndexFile ==
    /\ Idle
    /\ index_file.exists
    /\ index_file' = NoFile
    /\ lastOp' = [op |-> "remove", file |-> "index"]
    /\ UNCHANGED <<vector_store, metadata_file, saved, lastMut>>
    /\ UNCHANGED engineVars

RemoveMetadataFile ==
    /\ Idle
    /\ metadata_file.exists
    /\ metadata_file' = NoFile
    /\ lastOp' = [op |-> "remove", file |-> "metadata"]
    /\ UNCHANGED <<vector_store, index_file, saved, lastMut>>
    /\ UNCHANGED engineVars

----------------------------------------------------------------------------
(* Specification of the index alone: construct, add, search over every     *)
(* list of up to MaxLen assessments and vectors.                           *)

InitIndex ==
    /\ vector_store \in {FAISSVectorStore(d) : d \in Dims}
    /\ index_file = NoFile
    /\ metadata_file = NoFile
    /\ saved = [exists |-> FALSE]
    /\ lastMut = "construct"
    /\ lastOp = NoOp
    /\ EngineUnused

NextIndex ==
    \/ \E d \in Dims : Construct(d)
    \/ \E assess \in SeqUpTo(Catalog, MaxLen), embeddings \in SeqUpTo(Vectors, MaxLen) :
          AddAssessments(assess, embeddings)
    \/ \E q \in Queries, k \in TopKs : Search(q, k)
    \/ Return

SpecIndex == InitIndex /\ [][NextIndex]_vars

(* Specification of the store with its persisted artifacts: the index      *)
(* operations on representative inputs, save, load and file removal.       *)

StoreAdds ==
    { <<<<>>, <<>>>>,
      <<<<JavaTest>>, <<v01>>>>,
      <<<<JavaTest, PythonTest>>, <<v01, v10>>>>,
      <<<<PythonTest, JavaTest>>, <<v10, v10>>>>,
      <<<<PythonTest, PythonTest, JavaTest>>, <<v10, v01, v01>>>>,
      <<<<PythonTest>>, <<<<1>>>>>>,
      <<<<JavaTest, PythonTest>>, <<v01, <<1>>>>>>,
      <<<<JavaTest>>, <<>>>> }

StoreQueries == {<<0, 0>>, v01, <<1>>}
StoreTopKs == {0, 1, 2}

Init == InitIndex

Next ==
    \/ \E d \in Dims : Construct(d)
    \/ \E a \in StoreAdds : AddAssessments(a[1], a[2])
    \/ \E q \in StoreQueries, k \in StoreTopKs : Search(q, k)
    \/ Save
    \/ Load
    \/ RemoveIndexFile
    \/ RemoveMetadataFile
    \/ Return

Spec == Init /\ [][Next]_vars


----------------------------------------------------------------------------
(* LLMReranker *)

DigitValue(c) ==
    CASE c = "0" -> 0 [] c = "1" -> 1 [] c = "2" -> 2 [] c = "3" -> 3 [] c = "9" -> 9

\* int(num_str) of a run of decimal digits
RECURSIVE int(_)
int(num_str) ==
    IF num_str = <<>> THEN 0
    ELSE 10 * int(SubSeq(num_str, 1, Len(num_str) - 1)) + DigitValue(num_str[Len(num_str)])

\* re.findall(r'\d+', text): the maximal runs of digits, left to right.
\* run is the run being read, i the next position.
RECURSIVE findall_digits(_, _, _)
findall_digits(text, i, run) ==
    IF i > Len(text)
    THEN IF run = <<>> THEN <<>> ELSE <<run>>
    ELSE IF text[i] \in Digits
    THEN findall_digits(text, i + 1, Append(run, text[i]))
    ELSE (IF run = <<>> THEN <<>> ELSE <<run>>) \o findall_digits(text, i + 1, <<>>)

\* variant: a value already kept is kept again
RECURSIVE KeepValid_repeats(_, _, _, _)
KeepValid_repeats(numbers, i, max_num, ranked_indices) ==
    IF i > Len(numbers) THEN ranked_indices
    ELSE LET num == int(numbers[i])
         IN KeepValid_repeats(numbers, i + 1, max_num,
                              IF 1 <= num /\ num <= max_num
                              THEN Append(ranked_indices, num) ELSE ranked_indices)

\* The loop over the numbers: keep the first occurrence of each value of
\* 1..max_num, in order of appearance.
RECURSIVE KeepValid(_, _, _, _)
KeepValid(numbers, i, max_num, ranked_indices) ==
    IF i > Len(numbers) THEN ranked_indices
    ELSE LET num == int(numbers[i])
             seen == {ranked_indices[m] : m \in 1..Len(ranked_indices)}
         IN KeepValid(numbers, i + 1, max_num,
                      IF 1 <= num /\ num <= max_num /\ num \notin seen
                      THEN Append(ranked_indices, num) ELSE ranked_indices)

\* The fill loop: i runs over 1..max_num appending what was not seen.
RECURSIVE FillLoop(_, _, _, _)
FillLoop(ranked_indices, seen, i, max_num) ==
    IF i > max_num THEN ranked_indices
    ELSE FillLoop(IF i \notin seen THEN Append(ranked_indices, i) ELSE ranked_indices,
                  seen, i + 1, max_num)

\* variant: missing positions are not filled in
FillMissing_skipped(ranked_indices, max_num) == ranked_indices

FillMissing(ranked_indices, max_num) ==
    IF Len(ranked_indices) < max_num
    THEN FillLoop(ranked_indices,
                  {ranked_indices[m] : m \in 1..Len(ranked_indices)}, 1, max_num)
    ELSE ranked_indices

parse_ranked_order(text, max_num) ==
    PySlice(FillMissing(KeepValid(findall_digits(text, 1, <<>>), 1, max_num, <<>>), max_num),
            max_num)

\* str.strip()
RECURSIVE strip(_)
strip(text) ==
    IF text # <<>> /\ Head(text) = " " THEN strip(Tail(text))
    ELSE IF text # <<>> /\ text[Len(text)] = " " THEN strip(SubSeq(text, 1, Len(text) - 1))
    ELSE text

Providers == {"gemini", "openai"}

\* What the language model does when invoked: it fails, or it returns text.
ModelOutputs ==
    { <<>>, <<"2", ",", "1">>, <<" ", "2">>, <<"1", ",", "1">>, <<"9", " ", "3">>,
      <<"3", ",", "2", ",", "1">>, ExampleText }

LLMOutcomes == {[failed |-> TRUE]} \cup {[failed |-> FALSE, text |-> t] : t \in ModelOutputs}

\* variant: the last top_k of the original order are returned
OnRerankError_last(assess, top_k) ==
    [raised |-> FALSE,
     result |-> SubSeq(assess, Len(assess) - Min(top_k, Len(assess)) + 1, Len(assess))]

\* variant: the failure is passed on to the caller
OnRerankError_reraise(assess, top_k) ==
    [raised |-> TRUE, result |-> <<>>]

\* The except branch: report and return the original order truncated.
OnRerankError(assess, top_k) ==
    [raised |-> FALSE, result |-> PySlice(assess, top_k)]

\* variant: the test for an unranked assessment compares the 0-based
\* position with the 1-based ranks
Reordered_zeroBased(assess, ranked_indices) ==
    LET valid == SelectSeq(ranked_indices, LAMBDA i : 1 <= i /\ i <= Len(assess))
        ranked_set == {ranked_indices[m] : m \in 1..Len(ranked_indices)}
        unranked == SelectSeq([i \in 1..Len(assess) |-> i], LAMBDA i : (i - 1) \notin ranked_set)
    IN [n \in 1..Len(valid) |-> assess[valid[n]]]
         \o [n \in 1..Len(unranked) |-> assess[unranked[n]]]

\* The reordering after a parsed ranking: the ranked positions mapped back,
\* then every assessment whose position is not in the ranking.
Reordered(assess, ranked_indices) ==
    LET valid == SelectSeq(ranked_indices, LAMBDA i : 1 <= i /\ i <= Len(assess))
        ranked_set == {ranked_indices[m] : m \in 1..Len(ranked_indices)}
        unranked == SelectSeq([i \in 1..Len(assess) |-> i], LAMBDA i : i \notin ranked_set)
    IN [n \in 1..Len(valid) |-> assess[valid[n]]]
         \o [n \in 1..Len(unranked) |-> assess[unranked[n]]]

\* variant: a failed invocation is followed by an invocation of the other
\* hosted backend before the original order is returned
rerank_retrying(provider, assess, top_k, llm) ==
    IF assess = <<>>
    THEN [raised |-> FALSE, result |-> <<>>, invocations |-> 0]
    ELSE IF \E i \in 1..Len(assess) : "name" \notin DOMAIN assess[i]
    THEN [raised |-> TRUE, result |-> <<>>, invocations |-> 0]
    ELSE IF provider \notin Providers
    THEN [raised |-> FALSE, result |-> PySlice(assess, top_k), invocations |-> 0]
    ELSE IF llm.failed
    THEN [raised |-> FALSE, result |-> PySlice(assess, top_k), invocations |-> 2]
    ELSE [raised |-> FALSE,
          result |-> PySlice(Reordered(assess,
                                       parse_ranked_order(strip(llm.text), Len(assess))),
                             top_k),
          invocations |-> 1]

\* rerank: whether it raised, what it returned, how often the model was invoked.
rerank(provider, assess, top_k, llm) ==
    IF assess = <<>>
    THEN [raised |-> FALSE, result |-> <<>>, invocations |-> 0]
    ELSE IF \E i \in 1..Len(assess) : "name" \notin DOMAIN assess[i]
    THEN [raised |-> TRUE, result |-> <<>>, invocations |-> 0]
    ELSE IF provider \notin Providers
    THEN [raised |-> FALSE, result |-> PySlice(assess, top_k), invocations |-> 0]
    ELSE IF llm.failed
    THEN LET e == OnRerankError(assess, top_k)
         IN [raised |-> e.raised, result |-> e.result, invocations |-> 1]
    ELSE LET ranked_text == strip(llm.text)
             ranked_indices == parse_ranked_order(ranked_text, Len(assess))
         IN [raised |-> FALSE,
             result |-> PySlice(Reordered(assess, ranked_indices), top_k),
             invocations |-> 1]

(* Specification of the rank parser: every text and candidate count.       *)

ParseRankedOrder ==
    /\ lastOp.op = "parse_call"
    /\ lastOp' = [op |-> "parse",
                  text |-> lastOp.text,
                  max_num |-> lastOp.max_num,
                  result |-> parse_ranked_order(lastOp.text, lastOp.max_num)]
    /\ UNCHANGED <<vector_store, index_file, metadata_file, saved, lastMut>>
    /\ UNCHANGED engineVars

InitParse ==
    /\ vector_store = FAISSVectorStore(2)
    /\ index_file = NoFile
    /\ metadata_file = NoFile
    /\ saved = [exists |-> FALSE]
    /\ lastMut = "construct"
    /\ lastOp \in {[op |-> "parse_call", text |-> t, max_num |-> n] :
                     t \in Texts, n \in 0..MaxN}
    /\ EngineUnused

NextParse == ParseRankedOrder

SpecParse == InitParse /\ [][NextParse]_vars

(* Specification of rerank: every candidate list, top_k and model outcome. *)

Rerank(llm) ==
    /\ lastOp.op = "rerank_call"
    /\ LET r == rerank(lastOp.provider, lastOp.assessments, lastOp.top_k, llm)
       IN lastOp' = [op |-> "rerank",
                     provider |-> lastOp.provider,
                     assessments |-> lastOp.assessments,
                     top_k |-> lastOp.top_k,
                     llm |-> llm,
                     raised |-> r.raised,
                     result |-> r.result,
                     invocations |-> r.invocations]
    /\ UNCHANGED <<vector_store, index_file, metadata_file, saved, lastMut>>
    /\ UNCHANGED engineVars

InitRerank ==
    /\ vector_store = FAISSVectorStore(2)
    /\ index_file = NoFile
    /\ metadata_file = NoFile
    /\ saved = [exists |-> FALSE]
    /\ lastMut = "construct"
    /\ lastOp \in {[op |-> "rerank_call", provider |-> p, assessments |-> a, top_k |-> k] :
                     p \in Providers, a \in SeqUpTo(Catalog, MaxLen + 1), k \in TopKs}
    /\ EngineUnused

NextRerank == \E llm \in LLMOutcomes : Rerank(llm)

SpecRerank == InitRerank /\ [][NextRerank]_vars

----------------------------------------------------------------------------
(* Embedding providers (backend/app/embeddings.py) *)

\* dict.get(key, default)
get(d, key, default) == IF key \in DOMAIN d THEN d[key] ELSE default

\* A text is the sequence of the strings it was put together from.  The
\* embedding models are stand-ins: a table of three coordinates per text,
\* of which a provider returns as many as its model has dimensions, so the
\* three providers return vectors of three different lengths, as
\* text-embedding-3-small, text-embedding-004 and all-MiniLM-L6-v2 do.
Features(text) ==
    CASE text[1] = "Java Test" -> <<1, 0, 0>>
      [] text[1] = "Python Test" -> <<0, 1, 0>>
      [] text[1] = "Teamwork Test" -> <<0, 0, 1>>
      [] text[1] = "hiring a python developer" -> <<0, 2, 1>>
      [] OTHER -> <<2, 0, 0>>

EmbeddingDimension(provider) ==
    CASE provider = "openai" -> 3
      [] provider = "gemini" -> 2
      [] provider = "sentence-transformers" -> 1

model_embedding(provider, text) == SubSeq(Features(text), 1, EmbeddingDimension(provider))

\* An exception: its type, its message, and which of the markers looked for
\* by the handlers occur in the lower-cased message.
QuotaKeywords == {"quota", "429", "insufficient_quota", "rate_limit", "too_many_requests"}
GeminiEmbedKeywords == {"quota", "429"}

ApiErrors ==
    { [type |-> "APIError", msg |-> "insufficient_quota", keywords |-> {"quota", "insufficient_quota"}],
      [type |-> "APIError", msg |-> "rate_limit reached", keywords |-> {"rate_limit"}],
      [type |-> "APIError", msg |-> "connection error", keywords |-> {}] }

\* any(keyword in error_msg for keyword in keywords)
HasKeyword(e, keywords) == e.keywords \cap keywords # {}

\* RuntimeError(f"... API quota exceeded. Error: {e}. ...")
QuotaExceeded(provider, e) ==
    [type |-> "RuntimeError",
     msg |-> IF provider = "openai" THEN "OpenAI API quota exceeded" ELSE "Gemini API quota exceeded",
     keywords |-> e.keywords \cup {"quota"}]

NotAvailable ==
    [type |-> "RuntimeError", msg |-> "Fallback embedding model not available", keywords |-> {}]

\* What the hosted API does during one operation: its calls succeed, or the
\* call number fail_at raises error (fail_at = 0: no call fails).
MaxCalls == 3
NoFailure == [fail_at |-> 0, error |-> CHOOSE e \in ApiErrors : e.keywords = {}]
ApiScripts == {NoFailure} \cup {[fail_at |-> j, error |-> e] : j \in 1..MaxCalls, e \in ApiErrors}

\* the scripts that differ for an operation of one call
QueryScripts == {a \in ApiScripts : a.fail_at <= 1}

\* the scripts that differ for the second attempt of an operation: there is
\* a second attempt only after a first that failed
SecondScripts(api1, scripts) == IF api1.fail_at = 0 THEN {NoFailure} ELSE scripts

\* EmbeddingGenerator(provider): the import, the credential, the client.
EmbeddingGenerator(provider) ==
    IF provider = "openai"
    THEN IF ~env.openai THEN [raised |-> TRUE, error |-> "ImportError"]
         ELSE IF ~env.OPENAI_API_KEY THEN [raised |-> TRUE, error |-> "ValueError"]
         ELSE [raised |-> FALSE,
               obj |-> [class |-> "EmbeddingGenerator", provider |-> "openai", available |-> TRUE]]
    ELSE IF provider = "gemini"
    THEN IF ~env.genai THEN [raised |-> TRUE, error |-> "ImportError"]
         ELSE IF ~env.GEMINI_API_KEY THEN [raised |-> TRUE, error |-> "ValueError"]
         ELSE [raised |-> FALSE,
               obj |-> [class |-> "EmbeddingGenerator", provider |-> "gemini", available |-> TRUE]]
    ELSE [raised |-> TRUE, error |-> "ValueError"]

\* FallbackEmbeddingGenerator(): never raises; provider is None when the
\* local model could not be loaded.
FallbackEmbeddingGenerator ==
    [class |-> "FallbackEmbeddingGenerator",
     provider |-> IF env.sentence_transformers THEN "sentence-transformers" ELSE "None",
     available |-> env.sentence_transformers]

\* EmbeddingGenerator.embed: one API call; the except clause of the provider.
EmbeddingGenerator_embed(gen, text, api) ==
    IF api.fail_at = 1
    THEN LET e == api.error
         IN [raised |-> TRUE, calls |-> 1,
             error |-> IF gen.provider = "openai"
                       THEN (IF HasKeyword(e, QuotaKeywords) THEN QuotaExceeded("openai", e) ELSE e)
                       ELSE (IF HasKeyword(e, GeminiEmbedKeywords) THEN QuotaExceeded("gemini", e) ELSE e)]
    ELSE [raised |-> FALSE, calls |-> 1, value |-> model_embedding(gen.provider, text)]

FallbackEmbeddingGenerator_embed(gen, text) ==
    IF ~gen.available
    THEN [raised |-> TRUE, calls |-> 0, error |-> NotAvailable]
    ELSE [raised |-> FALSE, calls |-> 1, value |-> model_embedding("sentence-transformers", text)]

\* generator.embed(text), by the class of the generator
embed(gen, text, api) ==
    IF gen.class = "EmbeddingGenerator" THEN EmbeddingGenerator_embed(gen, text, api)
    ELSE FallbackEmbeddingGenerator_embed(gen, text)

\* the default batch_size of embed_batch
BatchSize == 100

\* The chunk loop of EmbeddingGenerator.embed_batch: i is the 0-based start
\* of the chunk, calls the number of API calls made so far.  OpenAI is
\* called once per chunk, Gemini once per text; a failing call ends the
\* whole batch call in the except clause.
RECURSIVE embed_batch_loop(_, _, _, _, _, _, _)
embed_batch_loop(gen, texts, batch_size, i, embeddings, calls, api) ==
    IF i >= Len(texts)
    THEN [raised |-> FALSE, calls |-> calls, value |-> embeddings]
    ELSE LET batch == SubSeq(texts, i + 1, Min(i + batch_size, Len(texts)))
             ncalls == IF gen.provider = "openai" THEN 1 ELSE Len(batch)
         IN IF api.fail_at \in (calls + 1)..(calls + ncalls)
            THEN LET e == api.error
                 IN [raised |-> TRUE, calls |-> api.fail_at,
                     error |-> IF HasKeyword(e, QuotaKeywords)
                               THEN QuotaExceeded(gen.provider, e) ELSE e]
            ELSE embed_batch_loop(gen, texts, batch_size, i + batch_size,
                                  embeddings \o [n \in 1..Len(batch) |->
                                                   model_embedding(gen.provider, batch[n])],
                                  calls + ncalls, api)

EmbeddingGenerator_embed_batch(gen, texts, batch_size, api) ==
    embed_batch_loop(gen, texts, batch_size, 0, <<>>, 0, api)

FallbackEmbeddingGenerator_embed_batch(gen, texts, batch_size) ==
    IF ~gen.available
    THEN [raised |-> TRUE, calls |-> 0, error |-> NotAvailable]
    ELSE [raised |-> FALSE, calls |-> 1,
          value |-> [n \in 1..Len(texts) |-> model_embedding("sentence-transformers", texts[n])]]

\* generator.embed_batch(texts), by the class of the generator
embed_batch(gen, texts, batch_size, api) ==
    IF gen.class = "EmbeddingGenerator"
    THEN EmbeddingGenerator_embed_batch(gen, texts, batch_size, api)
    ELSE FallbackEmbeddingGenerator_embed_batch(gen, texts, batch_size)

\* variant: Gemini is tried before OpenAI
get_embedding_generator_gemini_first ==
    IF env.GEMINI_API_KEY /\ ~EmbeddingGenerator("gemini").raised
    THEN EmbeddingGenerator("gemini").obj
    ELSE IF env.OPENAI_API_KEY /\ ~EmbeddingGenerator("openai").raised
    THEN EmbeddingGenerator("openai").obj
    ELSE FallbackEmbeddingGenerator

\* get_embedding_generator(): OpenAI, then Gemini, then the local model.
get_embedding_generator ==
    IF env.OPENAI_API_KEY /\ ~EmbeddingGenerator("openai").raised
    THEN EmbeddingGenerator("openai").obj
    ELSE IF env.GEMINI_API_KEY /\ ~EmbeddingGenerator("gemini").raised
    THEN EmbeddingGenerator("gemini").obj
    ELSE FallbackEmbeddingGenerator

\* variant: after Gemini, OpenAI is tried again
get_embedding_generator_with_fallback_cycling(current_generator) ==
    IF current_generator.provider = "openai" /\ env.GEMINI_API_KEY
         /\ ~EmbeddingGenerator("gemini").raised
    THEN EmbeddingGenerator("gemini").obj
    ELSE IF current_generator.provider = "gemini" /\ env.OPENAI_API_KEY
              /\ ~EmbeddingGenerator("openai").raised
    THEN EmbeddingGenerator("openai").obj
    ELSE FallbackEmbeddingGenerator

\* variant: the generator that failed is returned again
get_embedding_generator_with_fallback_same(current_generator) == current_generator

\* get_embedding_generator_with_fallback(current_generator)
get_embedding_generator_with_fallback(current_generator) ==
    IF current_generator.provider = "openai" /\ env.GEMINI_API_KEY
         /\ ~EmbeddingGenerator("gemini").raised
    THEN EmbeddingGenerator("gemini").obj
    ELSE FallbackEmbeddingGenerator

\* LLMReranker(provider): the import and the credential
LLMReranker(provider) ==
    IF provider = "gemini"
    THEN IF env.genai /\ env.GEMINI_API_KEY
         THEN [raised |-> FALSE, obj |-> [provider |-> "gemini"]] ELSE [raised |-> TRUE]
    ELSE IF provider = "openai"
    THEN IF env.openai /\ env.OPENAI_API_KEY
         THEN [raised |-> FALSE, obj |-> [provider |-> "openai"]] ELSE [raised |-> TRUE]
    ELSE [raised |-> TRUE]

\* get_reranker(enable_reranking): Gemini, then OpenAI, else None
get_reranker(enable_reranking) ==
    IF ~enable_reranking THEN None
    ELSE IF env.GEMINI_API_KEY /\ ~LLMReranker("gemini").raised THEN LLMReranker("gemini").obj
    ELSE IF env.OPENAI_API_KEY /\ ~LLMReranker("openai").raised THEN LLMReranker("openai").obj
    ELSE None

----------------------------------------------------------------------------
(* RecommendationEngine (backend/app/recommend.py) *)

TeamworkTest == [name |-> "Teamwork Test", url |-> "u3"]
\* an entry without a name, as a metadata document written by other tooling may hold
Unnamed == [url |-> "u4", type |-> "P", description |-> "d4"]

\* the dimension of FAISSVectorStore() without argument: that of the local model
DefaultDimension == EmbeddingDimension("sentence-transformers")

NoError == [type |-> "none", msg |-> "", keywords |-> {}]
Raise(type, msg) == [type |-> type, msg |-> msg, keywords |-> {}]

\* f"{assess['name']} {assess.get('description', '')} {assess.get('type', '')}"
AssessmentText(assess) ==
    <<assess["name"], get(assess, "description", ""), get(assess, "type", "")>>

\* Line 84: the second embed_batch is outside any try, its failure leaves
\* _load_or_build_index.
SecondAttemptFailed(g2, a2, texts, api2) ==
    [raised |-> TRUE, error |-> a2.error, value |-> <<>>, embedding_generator |-> g2,
     attempts |-> <<[generator |-> g2, calls |-> a2.calls, raised |-> TRUE, error |-> a2.error]>>]

\* variant: after a quota failure the replacement embeds only the texts the
\* failed generator had not embedded yet, and the vectors of both are kept
embed_catalog_resuming(gen, texts, api1, api2) ==
    LET a1 == embed_batch(gen, texts, BatchSize, api1)
        first == [generator |-> gen, calls |-> a1.calls, raised |-> a1.raised,
                  error |-> IF a1.raised THEN a1.error ELSE NoError]
        done == IF a1.raised /\ a1.calls > 0 THEN a1.calls - 1 ELSE 0
        g2 == get_embedding_generator_with_fallback(gen)
        a2 == embed_batch(g2, SubSeq(texts, done + 1, Len(texts)), BatchSize, api2)
        second == [generator |-> g2, calls |-> a2.calls, raised |-> a2.raised,
                   error |-> IF a2.raised THEN a2.error ELSE NoError]
    IN IF ~a1.raised
       THEN [raised |-> FALSE, error |-> NoError, value |-> a1.value,
             embedding_generator |-> gen, attempts |-> <<first>>]
       ELSE IF ~HasKeyword(a1.error, QuotaKeywords)
       THEN [raised |-> TRUE, error |-> a1.error, value |-> <<>>,
             embedding_generator |-> gen, attempts |-> <<first>>]
       ELSE IF a2.raised
       THEN [raised |-> TRUE, error |-> a2.error, value |-> <<>>,
             embedding_generator |-> g2, attempts |-> <<first, second>>]
       ELSE [raised |-> FALSE, error |-> NoError,
             value |-> [i \in 1..done |-> model_embedding(gen.provider, texts[i])] \o a2.value,
             embedding_generator |-> g2, attempts |-> <<first, second>>]

\* Lines 73-86: embed_batch on the active generator; on a failure whose
\* message holds a quota marker the generator is replaced and embed_batch
\* called again; any other failure is raised again.  (Each intermediate
\* result is handed on as an argument, so that it is computed once.)
embed_catalog(gen, texts, api1, api2) ==
    LET attemptOf(g, a) ==
            [generator |-> g, calls |-> a.calls, raised |-> a.raised,
             error |-> IF a.raised THEN a.error ELSE NoError]
        afterSecond(first, g2, a2) ==
            IF a2.raised
            THEN [SecondAttemptFailed(g2, a2, texts, api2) EXCEPT !.attempts = <<first>> \o @]
            ELSE [raised |-> FALSE, error |-> NoError, value |-> a2.value,
                  embedding_generator |-> g2, attempts |-> <<first, attemptOf(g2, a2)>>]
        secondAttempt(first, g2) ==
            afterSecond(first, g2, embed_batch(g2, texts, BatchSize, api2))
        afterFirst(a1) ==
            IF ~a1.raised
            THEN [raised |-> FALSE, error |-> NoError, value |-> a1.value,
                  embedding_generator |-> gen, attempts |-> <<attemptOf(gen, a1)>>]
            ELSE IF HasKeyword(a1.error, QuotaKeywords)
            THEN secondAttempt(attemptOf(gen, a1), get_embedding_generator_with_fallback(gen))
            ELSE [raised |-> TRUE, error |-> a1.error, value |-> <<>>,
                  embedding_generator |-> gen, attempts |-> <<attemptOf(gen, a1)>>]
    IN afterFirst(embed_batch(gen, texts, BatchSize, api1))

\* A persisted file that cannot be read back: faiss.read_index or json.load
\* raises on it.
IsCorrupt(file) == file.exists /\ "corrupt" \in DOMAIN file

\* vector_store.load raises (vector_store.py lines 94-96)
load_raises(ifile, mfile) == BothExist(ifile, mfile) /\ (IsCorrupt(ifile) \/ IsCorrupt(mfile))

\* variant: a failed load is taken as a load, of nothing
try_load_no_rebuild(s0, ifile, mfile) ==
    IF ~BothExist(ifile, mfile) THEN [loaded |-> FALSE, store |-> s0]
    ELSE IF load_raises(ifile, mfile) THEN [loaded |-> TRUE, store |-> s0]
    ELSE [loaded |-> TRUE, store |-> load(s0, ifile, mfile).store]

\* Lines 46-52: load when both files exist; a failure of load is caught and
\* printed, and the build follows.
try_load(s0, ifile, mfile) ==
    IF ~BothExist(ifile, mfile) THEN [loaded |-> FALSE, store |-> s0]
    ELSE IF load_raises(ifile, mfile) THEN [loaded |-> FALSE, store |-> s0]
    ELSE [loaded |-> TRUE, store |-> load(s0, ifile, mfile).store]

\* _load_or_build_index: what it raised, the store, generator and files it
\* leaves, whether it loaded, how often it read the catalog, and the
\* embed_batch attempts it made.
load_or_build_index(gen, ifile, mfile, cfile, api1, api2) ==
    LET s0 == FAISSVectorStore(DefaultDimension)
        base == [raised |-> FALSE, error |-> NoError, store |-> s0,
                 embedding_generator |-> gen, index_file |-> ifile, metadata_file |-> mfile,
                 loaded |-> FALSE, catalog_reads |-> 0, attempts |-> <<>>]
        afterSave(tried, a, files) ==
            [tried EXCEPT !.store = a.store,
                          !.index_file = files.index_file,
                          !.metadata_file = files.metadata_file]
        afterAdd(tried, a) ==
            IF a.outcome # "ok"
            THEN [tried EXCEPT !.raised = TRUE, !.store = a.store,
                               !.error = Raise("Exception", a.outcome)]
            ELSE afterSave(tried, a, save(a.store))
        afterEmbed(read, assessments, e) ==
            IF e.raised
            THEN [read EXCEPT !.embedding_generator = e.embedding_generator,
                              !.attempts = e.attempts,
                              !.raised = TRUE, !.error = e.error]
            ELSE afterAdd([read EXCEPT !.embedding_generator = e.embedding_generator,
                                       !.attempts = e.attempts],
                          add_assessments(FAISSVectorStore(Len(e.value[1])),
                                          assessments, e.value))
        afterRead(read, assessments) ==
            IF assessments = <<>>
            THEN [read EXCEPT !.raised = TRUE, !.error = Raise("ValueError", "Catalog is empty")]
            ELSE IF \E i \in 1..Len(assessments) : "name" \notin DOMAIN assessments[i]
            THEN [read EXCEPT !.raised = TRUE, !.error = Raise("KeyError", "name")]
            ELSE afterEmbed(read, assessments,
                            embed_catalog(gen,
                                          [i \in 1..Len(assessments) |->
                                             AssessmentText(assessments[i])],
                                          api1, api2))
        afterLoad(l) ==
            IF l.loaded
            THEN [base EXCEPT !.store = l.store, !.loaded = TRUE]
            ELSE IF ~cfile.exists
            THEN [base EXCEPT !.raised = TRUE,
                              !.error = Raise("FileNotFoundError", "Catalog file not found")]
            ELSE afterRead([base EXCEPT !.catalog_reads = 1], json_load(cfile.doc))
    IN afterLoad(try_load(s0, ifile, mfile))

\* RecommendationEngine(enable_reranking=...): lines 36-39.
RecommendationEngine(enable_reranking, ifile, mfile, cfile, api1, api2) ==
    LET constructed(gen, reranker, b) ==
            [raised |-> b.raised, error |-> b.error,
             engine |-> [embedding_generator |-> b.embedding_generator, reranker |-> reranker],
             initial_generator |-> gen,
             build |-> b]
        withGenerator(gen) ==
            constructed(gen,
                        IF enable_reranking THEN get_reranker(enable_reranking) ELSE None,
                        load_or_build_index(gen, ifile, mfile, cfile, api1, api2))
    IN withGenerator(get_embedding_generator)

\* one of the dictionaries appended in lines 138-143
format_view(assess) ==
    [assessment_name |-> get(assess, "name", "Unknown"),
     assessment_url |-> get(assess, "url", ""),
     test_type |-> get(assess, "type", "Unknown"),
     description |-> get(assess, "description", "")]

\* variant: without a reranker twice as many candidates are fetched, too
search_k_doubled(reranker, top_k) == top_k * 2

\* line 125
search_k(reranker, top_k) == IF reranker # None THEN top_k * 2 ELSE top_k

\* Lines 125-145 of recommend: search, rerank, format.
recommend_tail(store, reranker, query_embedding, top_k, llm) ==
    LET views(kept) == [i \in 1..Len(kept) |-> format_view(kept[i])]
        afterRerank(base, rr) ==
            IF rr.raised
            THEN [base EXCEPT !.raised = TRUE, !.error = Raise("KeyError", "name"),
                              !.reranked = TRUE, !.invocations = rr.invocations]
            ELSE [base EXCEPT !.reranked = TRUE, !.invocations = rr.invocations,
                              !.value = views(PySlice(rr.result, top_k))]
        afterExtract(r, base, found) ==
            IF r.outcome # "ok"
            THEN [base EXCEPT !.raised = TRUE, !.error = Raise("AssertionError", r.outcome)]
            ELSE IF reranker # None /\ Len(found) > 1
            THEN afterRerank(base, rerank(reranker.provider, found, top_k, llm))
            ELSE [base EXCEPT !.value = views(PySlice(found, top_k))]
        afterSearch(r) ==
            afterExtract(r,
                         [raised |-> FALSE, error |-> NoError, value |-> <<>>,
                          results |-> r.results, reranked |-> FALSE, invocations |-> 0],
                         [i \in 1..Len(r.results) |-> r.results[i][1]])
    IN afterSearch(search(store, query_embedding, search_k(reranker, top_k)))

\* variant: a non-quota failure is answered with the fallback as well
NeedsFallback_any(e) == TRUE

\* line 115: the failure's message holds one of the quota markers
NeedsFallback(e) == HasKeyword(e, QuotaKeywords)

\* variant: a failed second attempt is followed by a third, on the next replacement
retry_query_again(g2, query, api2) ==
    LET a2 == embed(g2, query, api2)
        g3 == get_embedding_generator_with_fallback(g2)
        a3 == embed(g3, query, api2)
        second == [generator |-> g2, calls |-> a2.calls, raised |-> a2.raised,
                   error |-> IF a2.raised THEN a2.error ELSE NoError]
    IN IF ~a2.raised
       THEN [raised |-> FALSE, error |-> NoError, value |-> a2.value,
             embedding_generator |-> g2, attempts |-> <<second>>]
       ELSE [raised |-> a3.raised, error |-> IF a3.raised THEN a3.error ELSE NoError,
             value |-> IF a3.raised THEN <<>> ELSE a3.value,
             embedding_generator |-> g3,
             attempts |-> <<second, [generator |-> g3, calls |-> a3.calls, raised |-> a3.raised,
                                     error |-> IF a3.raised THEN a3.error ELSE NoError]>>]

\* line 120: embed on the replacement, outside any try
retry_query(g2, query, api2) ==
    LET afterSecond(a2) ==
            [raised |-> a2.raised, error |-> IF a2.raised THEN a2.error ELSE NoError,
             value |-> IF a2.raised THEN <<>> ELSE a2.value,
             embedding_generator |-> g2,
             attempts |-> <<[generator |-> g2, calls |-> a2.calls, raised |-> a2.raised,
                             error |-> IF a2.raised THEN a2.error ELSE NoError]>>]
    IN afterSecond(embed(g2, query, api2))

\* Lines 112-145 of recommend, after the first embed call has ended as
\* first: current is the engine's generator at this moment.
recommend_rest(current, first, store, reranker, query, top_k, api2, llm) ==
    LET answer(e, t) ==
            [raised |-> t.raised, error |-> t.error, value |-> t.value,
             embedded |-> ~e.raised, query_embedding |-> e.value,
             substituted |-> first.raised /\ NeedsFallback(first.error),
             embedding_generator |-> e.embedding_generator,
             attempts |-> <<first>> \o e.attempts,
             results |-> t.results, reranked |-> t.reranked, invocations |-> t.invocations]
        afterEmbed(e) ==
            answer(e, IF e.raised
                      THEN [raised |-> TRUE, error |-> e.error, value |-> <<>>, results |-> <<>>,
                            reranked |-> FALSE, invocations |-> 0]
                      ELSE recommend_tail(store, reranker, e.value, top_k, llm))
    IN afterEmbed(IF ~first.raised
                  THEN [raised |-> FALSE, error |-> NoError, value |-> first.value,
                        embedding_generator |-> current, attempts |-> <<>>]
                  ELSE IF NeedsFallback(first.error)
                  THEN retry_query(get_embedding_generator_with_fallback(current), query, api2)
                  ELSE [raised |-> TRUE, error |-> first.error, value |-> <<>>,
                        embedding_generator |-> current, attempts |-> <<>>])

----------------------------------------------------------------------------
(* The server (backend/app/main.py): requests of POST /recommend against   *)
(* the global engine, and restarts of the process.                         *)

MaxRestarts == 1

\* Environments: both credentials with and without reranking, one
\* credential only, none, no local model, no Gemini client package, no
\* OpenAI client package.
EngineEnvs ==
    { Env(TRUE, TRUE, TRUE, TRUE, TRUE),
      Env(TRUE, TRUE, TRUE, TRUE, FALSE),
      Env(TRUE, FALSE, TRUE, TRUE, TRUE),
      Env(FALSE, TRUE, TRUE, TRUE, FALSE),
      Env(FALSE, TRUE, TRUE, TRUE, TRUE),
      Env(FALSE, FALSE, TRUE, TRUE, TRUE),
      Env(FALSE, FALSE, TRUE, FALSE, FALSE),
      Env(TRUE, TRUE, FALSE, FALSE, TRUE),
      Env(FALSE, TRUE, FALSE, TRUE, FALSE),
      [Env(TRUE, TRUE, TRUE, TRUE, FALSE) EXCEPT !.openai = FALSE] }

ServerEnvs ==
    { Env(TRUE, TRUE, TRUE, TRUE, FALSE),
      Env(FALSE, TRUE, TRUE, TRUE, TRUE) }

CatalogFiles ==
    { NoFile,
      [exists |-> TRUE, doc |-> json_dump(<<>>)],
      [exists |-> TRUE, doc |-> json_dump(<<JavaTest, PythonTest, TeamworkTest>>)] }

\* What is at index_path and metadata_path when the process first starts:
\* nothing, a pair written earlier by other tooling, that pair without its
\* metadata, or with one of the two files unreadable.
ForeignStore ==
    [dimension |-> 2, index |-> [d |-> 2, xb |-> <<v10, v01>>],
     assessments |-> <<JavaTest, Unnamed>>, embeddings_array |-> None]

CorruptFile == [exists |-> TRUE, corrupt |-> TRUE]

StorageAtStart ==
    { [index_file |-> NoFile, metadata_file |-> NoFile],
      save(ForeignStore),
      [index_file |-> save(ForeignStore).index_file, metadata_file |-> NoFile],
      [index_file |-> CorruptFile, metadata_file |-> save(ForeignStore).metadata_file],
      [index_file |-> save(ForeignStore).index_file, metadata_file |-> CorruptFile] }

ServerQueries == {"hiring a python developer"}
EngineTopKs == {0, 1, 2, 3}
ServerTopKs == {1, 3}

\* variant: the endpoint is a plain def, which the framework runs in a
\* thread pool, so handlers run side by side
EventLoopFree_threadpool == TRUE

\* The endpoint is an async def whose body never awaits: the event loop runs
\* a handler from its first statement to its last before it starts another.
EventLoopFree == \A o \in Requests : requests[o].pc \in {"idle", "arrived", "done"}

\* A client sends POST /recommend.
Arrive(r, query, top_k) ==
    /\ requests[r].pc = "idle"
    /\ requests' = [requests EXCEPT ![r] =
                      [pc |-> "arrived", query |-> query, top_k |-> top_k,
                       early |-> recommendation_engine = None]]
    /\ UNCHANGED <<vector_store, index_file, metadata_file, saved, lastMut, lastOp,
                   env, catalog_file, recommendation_engine, hist>>

\* variant: get_engine constructs an engine without testing the global
Dispatch_untested(r) ==
    /\ requests[r].pc = "arrived"
    /\ EventLoopFree
    /\ requests' = [requests EXCEPT ![r] =
                      [pc |-> "construct",
                       query |-> requests[r].query, top_k |-> requests[r].top_k,
                       early |-> requests[r].early, engine |-> 0]]
    /\ UNCHANGED <<vector_store, index_file, metadata_file, saved, lastMut, lastOp,
                   env, catalog_file, recommendation_engine, hist>>

\* The handler starts: get_engine tests the global (line 37).
Dispatch(r) ==
    /\ requests[r].pc = "arrived"
    /\ EventLoopFree
    /\ requests' = [requests EXCEPT ![r] =
                      [pc |-> IF recommendation_engine = None THEN "construct" ELSE "embed",
                       query |-> requests[r].query, top_k |-> requests[r].top_k,
                       early |-> requests[r].early,
                       engine |-> IF recommendation_engine = None THEN 0
                                  ELSE recommendation_engine.serial]]
    /\ UNCHANGED <<vector_store, index_file, metadata_file, saved, lastMut, lastOp,
                   env, catalog_file, recommendation_engine, hist>>

Response500(r, e) ==
    [pc |-> "done", stage |-> "get_engine",
     query |-> requests[r].query, top_k |-> requests[r].top_k, early |-> requests[r].early,
     status |-> 500, error |-> e]

\* get_engine constructs the engine (lines 38-43) and assigns the global.
ConstructEngine(r, api1, api2) ==
    /\ requests[r].pc = "construct"
    /\ \E c \in {RecommendationEngine(env.ENABLE_RERANKING, index_file, metadata_file,
                                     catalog_file, api1, api2)} :
       LET built == ~c.raised /\ ~c.build.loaded
       IN /\ lastOp' = [op |-> "startup", raised |-> c.raised, error |-> c.error,
                        loaded |-> c.build.loaded, catalog_reads |-> c.build.catalog_reads,
                        attempts |-> c.build.attempts,
                        initial_generator |-> c.initial_generator,
                        embedding_generator |-> c.engine.embedding_generator,
                        found_both |-> BothExist(index_file, metadata_file),
                        load_failed |-> load_raises(index_file, metadata_file)]
          /\ index_file' = c.build.index_file
          /\ metadata_file' = c.build.metadata_file
          /\ hist' = [hist EXCEPT !.engines = IF c.raised THEN @ ELSE @ + 1,
                                  !.builds = IF built THEN @ + 1 ELSE @]
          /\ IF c.raised
             THEN /\ requests' = [requests EXCEPT ![r] = Response500(r, c.error)]
                  /\ UNCHANGED <<recommendation_engine, vector_store>>
             ELSE /\ recommendation_engine' =
                        [embedding_generator |-> c.engine.embedding_generator,
                         reranker |-> c.engine.reranker,
                         serial |-> hist.engines + 1]
                  /\ vector_store' = c.build.store
                  /\ requests' = [requests EXCEPT ![r].pc = "embed",
                                                  ![r].engine = hist.engines + 1]
    /\ UNCHANGED <<saved, lastMut, env, catalog_file>>

\* recommend, line 111: the first embed call on the engine's generator.
EmbedQuery(r, api) ==
    /\ requests[r].pc = "embed"
    /\ \E gen \in {recommendation_engine.embedding_generator} :
       \E a \in {embed(gen, <<requests[r].query>>, api)} :
          requests' = [requests EXCEPT ![r] =
                         [pc |-> "continue", query |-> requests[r].query,
                          top_k |-> requests[r].top_k, engine |-> requests[r].engine,
                          early |-> requests[r].early,
                          failed_serial |-> hist.gen_serial,
                          first |-> [generator |-> gen, calls |-> a.calls, raised |-> a.raised,
                                     error |-> IF a.raised THEN a.error ELSE NoError,
                                     value |-> IF a.raised THEN <<>> ELSE a.value]]]
    /\ UNCHANGED <<vector_store, index_file, metadata_file, saved, lastMut, lastOp,
                   env, catalog_file, recommendation_engine, hist>>

\* recommend, lines 112-145, and the handler's answer (main.py 90-96): the
\* fallback when the first call failed on quota, search, rerank, format.
Continue(r, api2, llm) ==
    /\ requests[r].pc = "continue"
    /\ \E eng \in {recommendation_engine}, rq \in {requests[r]} :
       \E x \in {recommend_rest(eng.embedding_generator, rq.first, vector_store, eng.reranker,
                                 <<rq.query>>, rq.top_k, api2, llm)} :
          /\ recommendation_engine' = [eng EXCEPT !.embedding_generator = x.embedding_generator]
          /\ hist' = IF x.substituted
                     THEN [hist EXCEPT !.gen_serial = @ + 1,
                                       !.replaced_for = Append(@, rq.failed_serial)]
                     ELSE hist
          /\ requests' = [requests EXCEPT ![r] =
                            [pc |-> "done", stage |-> "recommend",
                             query |-> rq.query, top_k |-> rq.top_k, engine |-> rq.engine,
                             early |-> rq.early,
                             status |-> IF x.raised THEN 500 ELSE 200,
                             error |-> x.error,
                             recommendations |-> x.value,
                             count |-> Len(x.value),
                             generator_before |-> rq.first.generator,
                             generator_after |-> x.embedding_generator,
                             attempts |-> x.attempts,
                             embedded |-> x.embedded,
                             query_embedding |-> x.query_embedding,
                             results |-> x.results,
                             reranker |-> eng.reranker,
                             reranked |-> x.reranked,
                             invocations |-> x.invocations,
                             llm_failed |-> x.invocations > 0 /\ llm.failed,
                             store |-> vector_store]]
    /\ UNCHANGED <<vector_store, index_file, metadata_file, saved, lastMut, lastOp,
                   env, catalog_file>>

\* The client takes the answer.
Respond(r) ==
    /\ requests[r].pc = "done"
    /\ requests' = [requests EXCEPT ![r] = NoRequest]
    /\ UNCHANGED <<vector_store, index_file, metadata_file, saved, lastMut, lastOp,
                   env, catalog_file, recommendation_engine, hist>>

\* The process is stopped and started again: the global is None again, the
\* requests in flight are gone, the files stay.
Restart ==
    /\ hist.restarts < MaxRestarts
    /\ recommendation_engine' = None
    /\ requests' = [r \in Requests |-> NoRequest]
    /\ vector_store' = FAISSVectorStore(DefaultDimension)
    /\ hist' = [HistZero EXCEPT !.restarts = hist.restarts + 1, !.builds = hist.builds]
    /\ lastOp' = NoOp
    /\ UNCHANGED <<index_file, metadata_file, saved, lastMut, env, catalog_file>>

(* Specification of the engine behind the endpoint, one request at a time, *)
(* over restarts of the process.                                           *)

InitEngine ==
    /\ env \in EngineEnvs
    /\ catalog_file \in CatalogFiles
    /\ \E f \in StorageAtStart : index_file = f.index_file /\ metadata_file = f.metadata_file
    /\ vector_store = FAISSVectorStore(DefaultDimension)
    /\ saved = [exists |-> FALSE]
    /\ lastMut = "construct"
    /\ lastOp = NoOp
    /\ recommendation_engine = None
    /\ requests = [r \in Requests |-> NoRequest]
    /\ hist = HistZero

NextEngine ==
    \/ \E q \in ServerQueries, k \in EngineTopKs : Arrive("r1", q, k)
    \/ Dispatch("r1")
    \/ \E api1 \in ApiScripts :
          \E api2 \in SecondScripts(api1, QueryScripts) : ConstructEngine("r1", api1, api2)
    \/ \E api \in QueryScripts : EmbedQuery("r1", api)
    \/ \E api2 \in (IF requests["r1"].pc = "continue" /\ requests["r1"].first.raised
                   THEN QueryScripts ELSE {NoFailure}),
          llm \in (IF recommendation_engine # None /\ recommendation_engine.reranker # None
                   THEN LLMOutcomes ELSE {[failed |-> TRUE]}) :
          Continue("r1", api2, llm)
    \/ Respond("r1")
    \/ Restart

SpecEngine == InitEngine /\ [][NextEngine]_vars

(* Specification of the server: two requests in flight together in one     *)
(* process.                                                                *)

InitServer ==
    /\ env \in ServerEnvs
    /\ catalog_file = [exists |-> TRUE, doc |-> json_dump(<<JavaTest, PythonTest, TeamworkTest>>)]
    /\ index_file = NoFile
    /\ metadata_file = NoFile
    /\ vector_store = FAISSVectorStore(DefaultDimension)
    /\ saved = [exists |-> FALSE]
    /\ lastMut = "construct"
    /\ lastOp = NoOp
    /\ recommendation_engine = None
    /\ requests = [r \in Requests |-> NoRequest]
    /\ hist = HistZero

NextServer ==
    \/ \E r \in Requests, q \in ServerQueries, k \in ServerTopKs : Arrive(r, q, k)
    \/ \E r \in Requests : Dispatch(r)
    \/ \E r \in Requests, api1 \in QueryScripts :
          \E api2 \in SecondScripts(api1, QueryScripts) : ConstructEngine(r, api1, api2)
    \/ \E r \in Requests, api \in QueryScripts : EmbedQuery(r, api)
    \/ \E r \in Requests :
          \E api2 \in (IF requests[r].pc = "continue" /\ requests[r].first.raised
                       THEN QueryScripts ELSE {NoFailure}),
             llm \in (IF recommendation_engine # None /\ recommendation_engine.reranker # None
                      THEN {[failed |-> TRUE], [failed |-> FALSE, text |-> <<"2", ",", "1">>]}
                      ELSE {[failed |-> TRUE]}) :
             Continue(r, api2, llm)
    \/ \E r \in Requests : Respond(r)

SpecServer == InitServer /\ [][NextServer]_vars

----------------------------------------------------------------------------
(* Properties of the reranker *)

C10_RerankFailOpen ==
    (lastOp.op = "rerank" /\ lastOp.llm.failed) =>
        /\ ~lastOp.raised
        /\ Len(lastOp.result) <= Len(lastOp.assessments)
        /\ \A i \in 1..Len(lastOp.result) : lastOp.result[i] = lastOp.assessments[i]
        /\ lastOp.top_k >= 0 =>
             Len(lastOp.result) = Min(lastOp.top_k, Len(lastOp.assessments))

C10_Witness ==
    /\ lastOp.op = "rerank"
    /\ lastOp.llm.failed
    /\ lastOp.invocations = 1
    /\ lastOp.top_k = 2
    /\ Len(lastOp.assessments) = 3
    /\ lastOp.result = <<lastOp.assessments[1], lastOp.assessments[2]>>
    /\ lastOp.assessments[1] # lastOp.assessments[2]

\* C11: for any model output, rerank over N candidates with top_k >= 0
\* returns exactly min(top_k, N) assessments: result[i] is the candidate at
\* the i-th position of the parsed permutation, the positions used are
\* pairwise different and all lie in 1..N.
C11_RerankReturnsHeadOfPermutation ==
    (lastOp.op = "rerank" /\ ~lastOp.llm.failed /\ lastOp.invocations = 1
       /\ lastOp.top_k >= 0) =>
        LET N == Len(lastOp.assessments)
            p == parse_ranked_order(strip(lastOp.llm.text), N)
            n == Min(lastOp.top_k, N)
        IN /\ ~lastOp.raised
           /\ Len(lastOp.result) = n
           /\ \A i \in 1..n : p[i] \in 1..N /\ lastOp.result[i] = lastOp.assessments[p[i]]
           /\ \A i, j \in 1..n : i # j => p[i] # p[j]

C11_Witness ==
    /\ lastOp.op = "rerank"
    /\ ~lastOp.llm.failed
    /\ lastOp.llm.text = <<"3", ",", "2", ",", "1">>
    /\ lastOp.invocations = 1
    /\ lastOp.top_k = 2
    /\ lastOp.assessments = <<JavaTest, JavaTest, PythonTest>>
    /\ lastOp.result = <<PythonTest, JavaTest>>

C20_AtMostOneInvocation ==
    (lastOp.op = "rerank") =>
        /\ lastOp.invocations <= 1
        /\ (lastOp.llm.failed /\ lastOp.invocations > 0) => lastOp.invocations = 1

C20_Witness ==
    /\ lastOp.op = "rerank"
    /\ lastOp.llm.failed
    /\ lastOp.provider = "gemini"
    /\ lastOp.invocations = 1
    /\ ~lastOp.raised
    /\ lastOp.result = <<PythonTest>>

----------------------------------------------------------------------------
(* Properties of the vector index *)

StoredDistance(q, label) == L2sqr(q, vector_store.index.xb[label + 1])

\* C1: in every reachable state the number of stored vectors equals the
\* number of stored assessments.
C1_VectorCountEqualsAssessmentCount ==
    ntotal(vector_store.index) = Len(vector_store.assessments)

\* C2: add with a number of assessments different from the number of vectors
\* fails with the validation error and leaves the store exactly as it was.
C2_AddLengthMismatchRejected ==
    [][(lastOp'.op = "add_assessments" /\ lastOp'.nAssessments # lastOp'.nEmbeddings)
         => (lastOp'.outcome = ValidationError /\ vector_store' = vector_store)]_vars

C2_Witness ==
    /\ lastOp.op = "add_assessments"
    /\ lastOp.nAssessments # lastOp.nEmbeddings
    /\ lastOp.nAssessments > 0
    /\ ntotal(vector_store.index) > 0

\* C3: after a successful add(A, V) the index holds exactly the pairs
\* (A[i], V[i]) in order, whatever it held before, and every search result
\* is one of these pairs.
C3_AddReplacesContents ==
    (lastOp.op = "add_assessments" /\ lastOp.outcome = "ok") =>
        /\ vector_store.assessments = lastOp.assessments
        /\ vector_store.index.xb = lastOp.embeddings
        /\ \A q \in Queries, k \in TopKs :
             LET r == search(vector_store, q, k)
             IN \A n \in 1..Len(r.results) :
                  /\ r.I[n] \in 0..(Len(lastOp.assessments) - 1)
                  /\ r.results[n] = <<lastOp.assessments[r.I[n] + 1],
                                      L2sqr(q, lastOp.embeddings[r.I[n] + 1])>>

C3_Witness ==
    /\ lastOp.op = "add_assessments"
    /\ lastOp.outcome = "ok"
    /\ lastOp.held_before > 0
    /\ lastOp.nAssessments > 0

\* C4: search(q, k) on an index of N entries returns exactly min(k, N)
\* results in non-decreasing distance, which are the min(k, N) nearest stored
\* entries; on an empty index it returns the empty list without error.
C4_SearchReturnsNearest ==
    (lastOp.op = "search") =>
        LET N == ntotal(vector_store.index)
        IN IF N = 0
           THEN lastOp.outcome = "ok" /\ lastOp.results = <<>>
           ELSE (Len(lastOp.query) = vector_store.index.d /\ lastOp.top_k >= 0) =>
                  /\ lastOp.outcome = "ok"
                  /\ Len(lastOp.results) = Min(lastOp.top_k, N)
                  /\ \A n \in 1..Len(lastOp.results) :
                       /\ lastOp.I[n] \in 0..(N - 1)
                       /\ lastOp.results[n][2] = StoredDistance(lastOp.query, lastOp.I[n])
                       /\ n > 1 => lastOp.results[n - 1][2] <= lastOp.results[n][2]
                       /\ \A p \in 0..(N - 1) :
                            (\A m \in 1..Len(lastOp.I) : lastOp.I[m] # p)
                               => lastOp.results[n][2] <= StoredDistance(lastOp.query, p)

\* C5: after a successful add, search with a query equal to a stored vector
\* returns first, at distance 0, an assessment whose stored vector equals the
\* query.
C5_StoredVectorFoundFirst ==
    (/\ lastOp.op = "search"
     /\ lastMut = "add_ok"
     /\ lastOp.top_k >= 1
     /\ \E i \in 1..ntotal(vector_store.index) : vector_store.index.xb[i] = lastOp.query) =>
        /\ lastOp.outcome = "ok"
        /\ lastOp.results # <<>>
        /\ lastOp.results[1][2] = 0
        /\ lastOp.I[1] \in 0..(ntotal(vector_store.index) - 1)
        /\ vector_store.index.xb[lastOp.I[1] + 1] = lastOp.query
        /\ lastOp.results[1][1] = vector_store.assessments[lastOp.I[1] + 1]

C5_Witness ==
    /\ lastOp.op = "search"
    /\ lastMut = "add_ok"
    /\ lastOp.top_k >= 2
    /\ ntotal(vector_store.index) >= 2
    /\ vector_store.index.xb[2] = lastOp.query
    /\ vector_store.index.xb[1] # lastOp.query
    /\ lastOp.results # <<>>
    /\ lastOp.I[1] = 1

C7_SaveLoadRoundTrip ==
    (lastOp.op = "load" /\ lastOp.found) =>
        /\ saved.exists
        /\ vector_store.assessments = saved.store.assessments
        /\ \A q \in Queries, k \in TopKs :
             search(vector_store, q, k) = search(saved.store, q, k)

C7_Witness ==
    /\ lastOp.op = "load"
    /\ lastOp.found
    /\ lastOp.fresh
    /\ Len(vector_store.assessments) = 2
    /\ vector_store.assessments[1] # vector_store.assessments[2]
    /\ ntotal(vector_store.index) = 2
    /\ vector_store.index.xb[1] # vector_store.index.xb[2]

\* C8: load with the index file or the metadata file (or both) missing raises
\* nothing and leaves vectors, assessments and dimension unchanged.
C8_LoadMissingIsNoOp ==
    [][(lastOp'.op = "load" /\ ~(index_file.exists /\ metadata_file.exists))
         => (~lastOp'.raised /\ ~lastOp'.found /\ vector_store' = vector_store)]_vars

C8_Witness ==
    /\ lastOp.op = "load"
    /\ ~lastOp.found
    /\ index_file.exists
    /\ ~metadata_file.exists
    /\ ntotal(vector_store.index) > 0

(* Specification of the provider chain: the two selection functions of     *)
(* embeddings.py applied in every environment.                             *)

ProviderEnvs ==
    {[Env(k1, k2, p2, st, rr) EXCEPT !.openai = p1] :
        k1 \in BOOLEAN, k2 \in BOOLEAN, p1 \in BOOLEAN, p2 \in BOOLEAN,
        st \in BOOLEAN, rr \in BOOLEAN}

\* the generators that can exist in the environment
Generators ==
    {EmbeddingGenerator(p).obj : p \in {q \in {"openai", "gemini"} : ~EmbeddingGenerator(q).raised}}
        \cup {FallbackEmbeddingGenerator}

InitProviders ==
    /\ env \in ProviderEnvs
    /\ catalog_file = NoFile
    /\ index_file = NoFile
    /\ metadata_file = NoFile
    /\ vector_store = FAISSVectorStore(DefaultDimension)
    /\ saved = [exists |-> FALSE]
    /\ lastMut = "construct"
    /\ lastOp = NoOp
    /\ recommendation_engine = None
    /\ requests = [r \in Requests |-> NoRequest]
    /\ hist = HistZero

\* get_embedding_generator() is called.
SelectGenerator ==
    /\ lastOp' = [op |-> "get_embedding_generator", result |-> get_embedding_generator]
    /\ UNCHANGED <<vector_store, index_file, metadata_file, saved, lastMut,
                   env, catalog_file, recommendation_engine, requests, hist>>

\* get_embedding_generator_with_fallback(current) is called.
ResolveNext(current) ==
    /\ lastOp' = [op |-> "get_embedding_generator_with_fallback", current |-> current,
                  result |-> get_embedding_generator_with_fallback(current)]
    /\ UNCHANGED <<vector_store, index_file, metadata_file, saved, lastMut,
                   env, catalog_file, recommendation_engine, requests, hist>>

NextProviders ==
    \/ SelectGenerator
    \/ \E current \in Generators : ResolveNext(current)

SpecProviders == InitProviders /\ [][NextProviders]_vars

----------------------------------------------------------------------------
(* Properties of the engine and the server *)

\* C12: an embedding operation (the query of a recommend, the catalog batch
\* of an index build) whose first attempt fails with a message holding a
\* quota marker is attempted exactly once more, on the generator that
\* follows the failed one in the chain, which becomes the engine's
\* generator; the operation ends with the outcome of that second attempt:
\* its vectors, or its failure passed on, without a third attempt.
C12_QuotaFailureRetriedOnce ==
    LET IsNext(g1, g2) ==
            IF g1.provider = "openai" /\ env.GEMINI_API_KEY /\ env.genai
            THEN g2.class = "EmbeddingGenerator" /\ g2.provider = "gemini"
            ELSE g2.class = "FallbackEmbeddingGenerator"
        Quota(a) == a[1].raised /\ a[1].error.keywords \cap QuotaKeywords # {}
    IN /\ \A r \in Requests :
            (requests[r].pc = "done" /\ requests[r].stage = "recommend"
               /\ Quota(requests[r].attempts)) =>
                LET rq == requests[r]
                    a == rq.attempts
                IN /\ Len(a) = 2
                   /\ IsNext(a[1].generator, a[2].generator)
                   /\ rq.generator_after = a[2].generator
                   /\ a[2].raised =>
                        (rq.status = 500 /\ rq.error = a[2].error /\ ~rq.embedded)
                   /\ ~a[2].raised =>
                        /\ rq.embedded
                        /\ rq.query_embedding =
                             model_embedding(a[2].generator.provider, <<rq.query>>)
       /\ (lastOp.op = "startup" /\ lastOp.attempts # <<>> /\ Quota(lastOp.attempts)) =>
            LET a == lastOp.attempts
                catalog == json_load(catalog_file.doc)
            IN /\ Len(a) = 2
               /\ IsNext(a[1].generator, a[2].generator)
               /\ lastOp.embedding_generator = a[2].generator
               /\ a[2].raised => (lastOp.raised /\ lastOp.error = a[2].error)
               /\ ~a[2].raised =>
                    /\ ~lastOp.raised
                    /\ vector_store.index.xb =
                         [i \in 1..Len(catalog) |->
                            model_embedding(a[2].generator.provider, AssessmentText(catalog[i]))]

C12_Witness ==
    /\ requests["r1"].pc = "done"
    /\ requests["r1"].stage = "recommend"
    /\ Len(requests["r1"].attempts) = 2
    /\ requests["r1"].attempts[1].generator.provider = "openai"
    /\ requests["r1"].attempts[2].generator.provider = "gemini"
    /\ requests["r1"].attempts[2].raised
    /\ "quota" \in requests["r1"].attempts[2].error.keywords
    /\ requests["r1"].status = 500
    /\ recommendation_engine.embedding_generator.provider = "gemini"

\* C13: an embedding operation whose first attempt fails with a message
\* holding no quota marker ends with that very failure: one attempt of at
\* most one API call, the failure as the API raised it, and the engine's
\* generator the one it was before the operation.
C13_OtherFailurePropagates ==
    LET Other(a) == a[1].raised /\ a[1].error.keywords \cap QuotaKeywords = {}
    IN /\ \A r \in Requests :
            (requests[r].pc = "done" /\ requests[r].stage = "recommend"
               /\ Other(requests[r].attempts)) =>
                LET rq == requests[r]
                IN /\ Len(rq.attempts) = 1
                   /\ rq.attempts[1].calls <= 1
                   /\ rq.status = 500
                   /\ rq.error = rq.attempts[1].error
                   /\ rq.error \in ApiErrors \cup {NotAvailable}
                   /\ rq.generator_after = rq.generator_before
                   /\ recommendation_engine.embedding_generator = rq.generator_before
       /\ (lastOp.op = "startup" /\ lastOp.attempts # <<>> /\ Other(lastOp.attempts)) =>
            /\ Len(lastOp.attempts) = 1
            /\ lastOp.raised
            /\ lastOp.error = lastOp.attempts[1].error
            /\ lastOp.error \in ApiErrors \cup {NotAvailable}
            /\ lastOp.embedding_generator = lastOp.initial_generator

C13_Witness ==
    /\ requests["r1"].pc = "done"
    /\ requests["r1"].stage = "recommend"
    /\ requests["r1"].attempts[1].raised
    /\ requests["r1"].attempts[1].generator.provider = "gemini"
    /\ requests["r1"].error.msg = "connection error"
    /\ requests["r1"].status = 500
    /\ recommendation_engine.embedding_generator.provider = "gemini"

C15_EngineConstructedOnce ==
    /\ hist.engines <= 1
    /\ hist.builds <= 1
    /\ \A r \in Requests :
          /\ requests[r].pc = "construct" =>
                \A o \in Requests \ {r} : requests[o].pc \in {"idle", "arrived", "done"}
          /\ requests[r].pc \in {"embed", "continue"} =>
                requests[r].engine = 1 /\ recommendation_engine.serial = 1
          /\ (requests[r].pc = "done" /\ requests[r].stage = "recommend") =>
                requests[r].engine = 1 /\ recommendation_engine.serial = 1

C15_Witness ==
    /\ requests["r1"].pc = "embed"
    /\ requests["r1"].early
    /\ requests["r1"].engine = 1
    /\ requests["r2"].pc = "done"
    /\ requests["r2"].stage = "recommend"
    /\ requests["r2"].early
    /\ requests["r2"].engine = 1
    /\ lastOp.op = "startup"
    /\ hist.engines = 1
    /\ hist.builds = 1

\* C16: a startup that loaded the persisted pair found both files, read no
\* catalog and made no embedding attempt; a startup that built the index
\* left both files behind, holding the store it built; and over all the
\* starts of the process the catalog is embedded into an index at most once.
C16_IndexBuiltOnceThenReloaded ==
    /\ (lastOp.op = "startup" /\ lastOp.loaded) =>
          /\ lastOp.found_both
          /\ ~lastOp.raised
          /\ lastOp.catalog_reads = 0
          /\ lastOp.attempts = <<>>
          /\ lastOp.embedding_generator = lastOp.initial_generator
    /\ (lastOp.op = "startup" /\ ~lastOp.raised /\ ~lastOp.loaded) =>
          /\ lastOp.catalog_reads = 1
          /\ BothExist(index_file, metadata_file)
          /\ index_file = write_index(vector_store.index)
          /\ json_load(metadata_file.doc) = vector_store.assessments
    /\ hist.builds <= 1

C16_Witness ==
    /\ hist.restarts = 1
    /\ hist.builds = 1
    /\ lastOp.op = "startup"
    /\ lastOp.loaded
    /\ vector_store.assessments = <<JavaTest, PythonTest, TeamworkTest>>
    /\ requests["r1"].pc = "done"
    /\ requests["r1"].status = 200

\* C17: a recommend whose index holds an assessment without one of its
\* fields does not fail on the missing field, with or without a reranker:
\* it answers, and every view it returns is a stored assessment with
\* "Unknown" for a missing name or type and "" for a missing url or
\* description.
C17_MissingFieldsNeverFail ==
    LET View(a) ==
            [assessment_name |-> IF "name" \in DOMAIN a THEN a.name ELSE "Unknown",
             assessment_url |-> IF "url" \in DOMAIN a THEN a.url ELSE "",
             test_type |-> IF "type" \in DOMAIN a THEN a.type ELSE "Unknown",
             description |-> IF "description" \in DOMAIN a THEN a.description ELSE ""]
        Fields == {"name", "url", "type", "description"}
    IN \A r \in Requests :
          (/\ requests[r].pc = "done"
           /\ requests[r].stage = "recommend"
           /\ requests[r].embedded
           /\ \E j \in 1..Len(requests[r].store.assessments) :
                 ~(Fields \subseteq DOMAIN requests[r].store.assessments[j])) =>
              /\ requests[r].error.type # "KeyError"
              /\ requests[r].status = 200 =>
                    \A i \in 1..requests[r].count :
                       \E j \in 1..Len(requests[r].store.assessments) :
                          requests[r].recommendations[i] = View(requests[r].store.assessments[j])

\* C18: without a reranker, a recommend whose query was embedded answers
\* with exactly min(top_k, N) views, N the number of indexed assessments:
\* the views of the min(top_k, N) assessments nearest to the query
\* embedding, in ascending order of distance.
C18_NearestViewsWithoutReranker ==
    \A r \in Requests :
       (/\ requests[r].pc = "done"
        /\ requests[r].stage = "recommend"
        /\ requests[r].embedded
        /\ requests[r].reranker = None) =>
           LET rq == requests[r]
               N == Len(rq.store.assessments)
               n == Min(rq.top_k, N)
               dist(j) == L2sqr(rq.query_embedding, rq.store.index.xb[j])
           IN /\ rq.status = 200
              /\ rq.count = n
              /\ \E idx \in [1..n -> 1..N] :
                    /\ \A i, j \in 1..n : i # j => idx[i] # idx[j]
                    /\ \A i \in 1..n :
                          /\ rq.recommendations[i] = format_view(rq.store.assessments[idx[i]])
                          /\ i > 1 => dist(idx[i - 1]) <= dist(idx[i])
                          /\ \A j \in 1..N :
                                (\A m \in 1..n : idx[m] # j) => dist(idx[i]) <= dist(j)

\* C21: a recommend that answers retrieved min(2 * top_k, N) candidates
\* when the engine has a reranker and min(top_k, N) when it has none, N the
\* number of indexed assessments; the reranker is called exactly when there
\* is one and more than one candidate was retrieved, and its model is
\* invoked only then; and never more than top_k views are returned.
C21_OverFetchOnlyForReranker ==
    \A r \in Requests :
       (requests[r].pc = "done" /\ requests[r].stage = "recommend") =>
          LET rq == requests[r]
              N == Len(rq.store.assessments)
          IN /\ rq.count <= rq.top_k
             /\ rq.reranked <=> (rq.embedded /\ rq.reranker # None /\ Len(rq.results) > 1)
             /\ rq.invocations > 0 => rq.reranked
             /\ rq.status = 200 =>
                   Len(rq.results) = Min(IF rq.reranker # None THEN rq.top_k * 2 ELSE rq.top_k, N)

C21_Witness ==
    /\ requests["r1"].pc = "done"
    /\ requests["r1"].stage = "recommend"
    /\ requests["r1"].status = 200
    /\ requests["r1"].reranker # None
    /\ requests["r1"].top_k = 1
    /\ Len(requests["r1"].results) = 2
    /\ requests["r1"].reranked
    /\ requests["r1"].invocations = 1
    /\ requests["r1"].count = 1

\* C22: the generator an engine is constructed with is the OpenAI one when
\* the OpenAI credential is set and its client can be constructed, else the
\* Gemini one when the Gemini credential is set and its client can be
\* constructed, else the local model; the selection raises nothing: a
\* startup that fails, fails in the index build.
C22_FirstQualifyingProviderSelected ==
    (lastOp.op = "startup") =>
        LET g == lastOp.initial_generator
        IN /\ IF env.OPENAI_API_KEY /\ env.openai
              THEN g.class = "EmbeddingGenerator" /\ g.provider = "openai"
              ELSE IF env.GEMINI_API_KEY /\ env.genai
              THEN g.class = "EmbeddingGenerator" /\ g.provider = "gemini"
              ELSE /\ g.class = "FallbackEmbeddingGenerator"
                   /\ g.available = env.sentence_transformers
           /\ lastOp.raised =>
                 \/ lastOp.error.msg \in {"Catalog file not found", "Catalog is empty"}
                 \/ /\ lastOp.attempts # <<>>
                    /\ lastOp.error = lastOp.attempts[Len(lastOp.attempts)].error

C22_Witness ==
    /\ lastOp.op = "startup"
    /\ env.OPENAI_API_KEY
    /\ ~env.openai
    /\ lastOp.initial_generator.provider = "gemini"
    /\ ~lastOp.raised

\* C23: the generator that follows a failed one is the Gemini one after
\* the OpenAI one when the Gemini credential is set and its client can be
\* constructed, and the local model in every other case; a hosted generator
\* is never followed by one of its own kind, and following the chain from
\* any generator ends at the local model, which is followed by itself.
C23_NextProviderEndsAtLocal ==
    (lastOp.op = "get_embedding_generator_with_fallback") =>
        LET c == lastOp.current
            g == lastOp.result
        IN /\ IF c.provider = "openai" /\ env.GEMINI_API_KEY /\ env.genai
              THEN g.class = "EmbeddingGenerator" /\ g.provider = "gemini"
              ELSE g = FallbackEmbeddingGenerator
           /\ c.class = "EmbeddingGenerator" =>
                 ~(g.class = "EmbeddingGenerator" /\ g.provider = c.provider)
           /\ get_embedding_generator_with_fallback(g) = FallbackEmbeddingGenerator

C23_Witness ==
    /\ lastOp.op = "get_embedding_generator_with_fallback"
    /\ lastOp.current.provider = "openai"
    /\ env.GEMINI_API_KEY
    /\ ~env.genai
    /\ lastOp.result.class = "FallbackEmbeddingGenerator"

\* C24: an index build whose first embed_batch failed on quota and whose
\* second, on the replacement, succeeded ends with an index of the
\* replacement's dimension that holds one vector per catalog entry, vector i
\* the replacement's embedding of entry i, also when the failed generator
\* had embedded some of the entries before it failed.
C24_FailedBatchDiscarded ==
    (/\ lastOp.op = "startup"
     /\ ~lastOp.loaded
     /\ Len(lastOp.attempts) = 2
     /\ ~lastOp.attempts[2].raised) =>
        LET g2 == lastOp.attempts[2].generator
            catalog == json_load(catalog_file.doc)
        IN /\ ~lastOp.raised
           /\ lastOp.attempts[1].raised
           /\ vector_store.assessments = catalog
           /\ vector_store.index.d = EmbeddingDimension(g2.provider)
           /\ ntotal(vector_store.index) = Len(catalog)
           /\ \A i \in 1..Len(catalog) :
                 vector_store.index.xb[i] = model_embedding(g2.provider, AssessmentText(catalog[i]))

C24_Witness ==
    /\ lastOp.op = "startup"
    /\ ~lastOp.raised
    /\ Len(lastOp.attempts) = 2
    /\ lastOp.attempts[1].generator.provider = "gemini"
    /\ lastOp.attempts[1].calls = 3
    /\ lastOp.attempts[2].generator.class = "FallbackEmbeddingGenerator"
    /\ vector_store.index.d = 1
    /\ ntotal(vector_store.index) = 3

\* C25: a startup that does not find both persisted files, or finds both
\* and fails to load them, does not load and does not fail on the files: it
\* reads the catalog, and unless the catalog is missing or empty or the
\* embedding of the catalog fails, the engine is constructed, both files
\* are written anew and hold the index the engine serves, built from the
\* catalog.
C25_MissingOrCorruptIndexRebuilt ==
    (lastOp.op = "startup" /\ (~lastOp.found_both \/ lastOp.load_failed)) =>
        /\ ~lastOp.loaded
        /\ catalog_file.exists => lastOp.catalog_reads = 1
        /\ lastOp.raised =>
              \/ ~catalog_file.exists /\ lastOp.error.msg = "Catalog file not found"
              \/ /\ catalog_file.exists
                 /\ json_load(catalog_file.doc) = <<>>
                 /\ lastOp.error.msg = "Catalog is empty"
              \/ /\ lastOp.attempts # <<>>
                 /\ lastOp.attempts[Len(lastOp.attempts)].raised
                 /\ lastOp.error = lastOp.attempts[Len(lastOp.attempts)].error
        /\ ~lastOp.raised =>
              /\ recommendation_engine # None
              /\ vector_store.assessments = json_load(catalog_file.doc)
              /\ ntotal(vector_store.index) = Len(vector_store.assessments)
              /\ BothExist(index_file, metadata_file)
              /\ ~IsCorrupt(index_file)
              /\ ~IsCorrupt(metadata_file)
              /\ read_index(index_file) = vector_store.index
              /\ json_load(metadata_file.doc) = vector_store.assessments

C25_Witness ==
    /\ lastOp.op = "startup"
    /\ lastOp.found_both
    /\ lastOp.load_failed
    /\ ~lastOp.raised
    /\ ntotal(vector_store.index) = 3
    /\ requests["r1"].pc = "done"
    /\ requests["r1"].status = 200
    /\ requests["r1"].count = 2

\* C26: in every recommend that reaches the search, the query vector has
\* as many coordinates as the vectors of the index it is searched in.
C26_QueryDimensionEqualsIndexDimension ==
    \A r \in Requests :
       (requests[r].pc = "done" /\ requests[r].stage = "recommend" /\ requests[r].embedded) =>
          Len(requests[r].query_embedding) = requests[r].store.index.d

\* C27: as long as the process keeps its engine, every step leaves the
\* engine's generator where it is in the chain OpenAI, Gemini, local model
\* or moves it forward, so the local model, once active, stays; and the
\* generator an engine comes up with is not earlier in the chain than the
\* one its construction started with.
C27_ProviderOnlyMovesForward ==
    [][LET Rank(g) == IF g.class = "FallbackEmbeddingGenerator" THEN 3
                      ELSE IF g.provider = "gemini" THEN 2 ELSE 1
       IN /\ lastOp'.op = "startup" =>
                Rank(lastOp'.embedding_generator) >= Rank(lastOp'.initial_generator)
          /\ (recommendation_engine # None /\ recommendation_engine' # None) =>
                Rank(recommendation_engine'.embedding_generator)
                   >= Rank(recommendation_engine.embedding_generator)]_vars

C27_Witness ==
    /\ recommendation_engine # None
    /\ recommendation_engine.embedding_generator.class = "FallbackEmbeddingGenerator"
    /\ hist.gen_serial = 2
    /\ lastOp.op = "startup"
    /\ lastOp.initial_generator.provider = "openai"
    /\ requests["r1"].pc = "done"
    /\ requests["r1"].generator_before.class = "FallbackEmbeddingGenerator"

\* C28: a recommend whose reranker was invoked and failed answers with the
\* list that the same index, query embedding and top_k give without a
\* reranker.
C28_FailedRerankerSameAsDisabled ==
    \A r \in Requests :
       (/\ requests[r].pc = "done"
        /\ requests[r].stage = "recommend"
        /\ requests[r].embedded
        /\ requests[r].reranker # None
        /\ requests[r].llm_failed) =>
           LET rq == requests[r]
               off == recommend_tail(rq.store, None, rq.query_embedding, rq.top_k,
                                     [failed |-> TRUE])
           IN /\ rq.status = 200
              /\ ~off.raised
              /\ ~off.reranked
              /\ rq.recommendations = off.value

C28_Witness ==
    /\ requests["r1"].pc = "done"
    /\ requests["r1"].stage = "recommend"
    /\ requests["r1"].reranker # None
    /\ requests["r1"].llm_failed
    /\ requests["r1"].top_k = 2
    /\ Len(requests["r1"].results) = 3
    /\ requests["r1"].count = 2
    /\ requests["r1"].status = 200

====
